---- MODULE Spec2Model ----
(***************************************************************************)
(* Model of the text-to-structure parsing layer of src/main.py:            *)
(* parse_mcq_output (lines 68-111) and parse_quiz_output (lines 113-180).  *)
(*                                                                         *)
(* A Python str is a sequence of one-character strings, so that strip,     *)
(* split, startswith and upper are computed character by character.        *)
(* The value None is the record None; where a str-or-None variable is      *)
(* needed, None is the one-element sequence NoneStr, whose element is not  *)
(* a character.                                                            *)
(***************************************************************************)
EXTENDS Integers, Sequences, FiniteSets, TLC

VARIABLES
    raw_text,               \* the argument of the parser being run
    pc,                     \* position in the parser
    result,                 \* the value returned (NotReturned until it returns)
    log,                    \* the last logger.error / final logger.info entry
    lines,                  \* parse_quiz_output: lines
    idx,                    \* parse_quiz_output: position of the for loop in lines
    title,                  \* parse_quiz_output: title
    questions,              \* parse_quiz_output: questions
    current_question_lines, \* parse_quiz_output: current_question_lines
    question_count,         \* parse_quiz_output: question_count
    handed                  \* the arguments of the calls of parse_mcq_output so far

vars == <<raw_text, pc, result, log, lines, idx, title, questions,
          current_question_lines, question_count, handed>>

-----------------------------------------------------------------------------
(* Python values *)

None == [type |-> "None"]
NotReturned == [type |-> "NotReturned"]
NoneStr == <<"<None>">>

NL == "\n"
Whitespace == {" ", "\n", "\t", "\r"}
Digits == {"0", "1", "2", "3", "4", "5", "6", "7", "8", "9"}
LowerCase == <<"a","b","c","d","e","f","g","h","i","j","k","l","m",
               "n","o","p","q","r","s","t","u","v","w","x","y","z">>
UpperCase == <<"A","B","C","D","E","F","G","H","I","J","K","L","M",
               "N","O","P","Q","R","S","T","U","V","W","X","Y","Z">>

\* str.upper() on one character
UpperChar(c) ==
    IF \E i \in 1..26 : LowerCase[i] = c
    THEN UpperCase[CHOOSE i \in 1..26 : LowerCase[i] = c]
    ELSE c

\* the letter used as found, without .upper()
Upper_Identity(s) == s

\* str.upper()
Upper(s) == [i \in 1..Len(s) |-> UpperChar(s[i])]

\* ord(c) for the upper-case letters
Ord(c) == 64 + (CHOOSE i \in 1..26 : UpperCase[i] = c)

RECURSIVE FirstNonWs(_, _)
FirstNonWs(s, i) ==
    IF i > Len(s) THEN i
    ELSE IF s[i] \in Whitespace THEN FirstNonWs(s, i + 1) ELSE i

RECURSIVE LastNonWs(_, _)
LastNonWs(s, i) ==
    IF i < 1 THEN i
    ELSE IF s[i] \in Whitespace THEN LastNonWs(s, i - 1) ELSE i

\* str.strip()
Strip(s) == SubSeq(s, FirstNonWs(s, 1), LastNonWs(s, Len(s)))

\* str.startswith(p)
StartsWith(s, p) == Len(s) >= Len(p) /\ SubSeq(s, 1, Len(p)) = p

RECURSIVE FirstIndexOf(_, _, _)
\* the first position >= i of s holding a character of cs, Len(s)+1 if none
FirstIndexOf(s, cs, i) ==
    IF i > Len(s) THEN i
    ELSE IF s[i] \in cs THEN i ELSE FirstIndexOf(s, cs, i + 1)

\* str.split(":", 1): one part when s has no colon, else two
SplitColon1(s) ==
    LET k == FirstIndexOf(s, {":"}, 1) IN
    IF k > Len(s) THEN <<s>>
    ELSE <<SubSeq(s, 1, k - 1), SubSeq(s, k + 1, Len(s))>>

RECURSIVE SplitLinesFrom(_, _)
SplitLinesFrom(s, i) ==
    LET k == FirstIndexOf(s, {NL}, i) IN
    IF k > Len(s) THEN <<SubSeq(s, i, Len(s))>>
    ELSE <<SubSeq(s, i, k - 1)>> \o SplitLinesFrom(s, k + 1)

\* str.split('\n'): never empty, "" gives [""]
SplitLines(s) == SplitLinesFrom(s, 1)

RECURSIVE JoinLines(_)
\* "\n".join(ls)
JoinLines(ls) ==
    IF Len(ls) = 0 THEN <<>>
    ELSE IF Len(ls) = 1 THEN ls[1]
    ELSE ls[1] \o <<NL>> \o JoinLines(Tail(ls))

\* str.split()[0] of a string that is not all whitespace
FirstToken(s) ==
    LET b == FirstNonWs(s, 1)
        e == FirstIndexOf(s, Whitespace, b)
    IN SubSeq(s, b, e - 1)

-----------------------------------------------------------------------------
(* Literals of the source *)

QuestionPrefix == <<"Q","u","e","s","t","i","o","n",":">>
APrefix == <<"A", ":">>
BPrefix == <<"B", ":">>
CPrefix == <<"C", ":">>
DPrefix == <<"D", ":">>
CorrectAnswerPrefix ==
    <<"C","o","r","r","e","c","t"," ","A","n","s","w","e","r",":">>
QuizTitlePrefix == <<"Q","u","i","z"," ","T","i","t","l","e",":">>
Letters == <<"A", "B", "C", "D">>
LetterSet == {"A", "B", "C", "D"}
expected_questions == 3

-----------------------------------------------------------------------------
(* parse_mcq_output *)

\* the locals before the loop
McqLocals0 ==
    [question_text |-> NoneStr,
     temp_options |-> <<>>,
     correct_answer_letter |-> NoneStr]

\* temp_options[k] = v
DictSet(d, k, v) ==
    [x \in (DOMAIN d) \cup {k} |-> IF x = k THEN v ELSE d[x]]

\* temp_options.get(k)
DictGet(d, k) == IF k \in DOMAIN d THEN d[k] ELSE NoneStr

\* line.split(":", 1)[1].strip(); IndexError is NoneStr
Remainder(line) ==
    LET parts == SplitColon1(line) IN
    IF Len(parts) < 2 THEN NoneStr ELSE Strip(parts[2])

\* the body of the for loop, for one line
McqLine(st, rawline) ==
    LET line == Strip(rawline) IN
    IF Len(line) = 0 THEN st
    ELSE LET r == Remainder(line) IN
         IF StartsWith(line, QuestionPrefix) THEN
             IF r = NoneStr THEN st ELSE [st EXCEPT !.question_text = r]
         ELSE IF StartsWith(line, APrefix) THEN
             IF r = NoneStr THEN st
             ELSE [st EXCEPT !.temp_options = DictSet(@, "A", r)]
         ELSE IF StartsWith(line, BPrefix) THEN
             IF r = NoneStr THEN st
             ELSE [st EXCEPT !.temp_options = DictSet(@, "B", r)]
         ELSE IF StartsWith(line, CPrefix) THEN
             IF r = NoneStr THEN st
             ELSE [st EXCEPT !.temp_options = DictSet(@, "C", r)]
         ELSE IF StartsWith(line, DPrefix) THEN
             IF r = NoneStr THEN st
             ELSE [st EXCEPT !.temp_options = DictSet(@, "D", r)]
         ELSE IF StartsWith(line, CorrectAnswerPrefix) THEN
             IF r = NoneStr THEN st
             ELSE [st EXCEPT !.correct_answer_letter = Upper(r)]
         ELSE st

RECURSIVE McqScan(_, _, _)
\* the for loop over lines, from line i on
McqScan(st, ls, i) ==
    IF i > Len(ls) THEN st ELSE McqScan(McqLine(st, ls[i]), ls, i + 1)

\* the locals after the loop
McqLocals(text) == McqScan(McqLocals0, SplitLines(Strip(text)), 1)

\* truth value of a str-or-None
Truthy(s) == s # NoneStr /\ Len(s) > 0

\* line 95 without the count of the options found
McqComplete_NoCount(st) ==
    /\ Truthy(st.question_text)
    /\ st.correct_answer_letter \in {<<"A">>, <<"B">>, <<"C">>, <<"D">>}

\* the condition of line 95
McqComplete(st) ==
    /\ Truthy(st.question_text)
    /\ Cardinality(DOMAIN st.temp_options) = 4
    /\ st.correct_answer_letter \in {<<"A">>, <<"B">>, <<"C">>, <<"D">>}

\* line 96 with the key of option D mistyped as C
McqOptions_CopyPaste(st) ==
    <<DictGet(st.temp_options, "A"), DictGet(st.temp_options, "B"),
      DictGet(st.temp_options, "C"), DictGet(st.temp_options, "C")>>

\* line 96: the four options by letter
McqOptions(st) ==
    <<DictGet(st.temp_options, "A"), DictGet(st.temp_options, "B"),
      DictGet(st.temp_options, "C"), DictGet(st.temp_options, "D")>>

\* the value parse_mcq_output returns
parse_mcq_output(text) ==
    LET st == McqLocals(text) IN
    IF McqComplete(st) THEN
        LET options == McqOptions(st) IN
        IF \E i \in 1..4 : options[i] = NoneStr THEN None
        ELSE [type |-> "multiple_choice_question",
              question_text |-> st.question_text,
              options |-> options,
              correct_answer_index |->
                  Ord(st.correct_answer_letter[1]) - Ord("A")]
    ELSE None

\* what parse_mcq_output logs last
parse_mcq_log(text) ==
    LET st == McqLocals(text) IN
    IF McqComplete(st) THEN
        IF \E i \in 1..4 : McqOptions(st)[i] = NoneStr
        THEN [event |-> "missing_option",
              question_found |-> TRUE,
              options_found |-> DOMAIN st.temp_options,
              answer_found |-> st.correct_answer_letter]
        ELSE [event |-> "success",
              question_found |-> TRUE,
              options_found |-> DOMAIN st.temp_options,
              answer_found |-> st.correct_answer_letter]
    ELSE [event |-> "missing_components",
          question_found |-> Truthy(st.question_text),
          options_found |-> DOMAIN st.temp_options,
          answer_found |-> st.correct_answer_letter]

-----------------------------------------------------------------------------
(* Input texts for parse_mcq_output *)

MaxExtra == 2

QuestionText == <<"q", " ", "r">>
OptionText(L) ==
    CASE L = "A" -> <<"w">>
      [] L = "B" -> <<"x", ":", "x">>
      [] L = "C" -> <<"y">>
      [] L = "D" -> <<"z", " ", "z">>

\* the lines a field contributes, by variant
QuestionLines(v) ==
    CASE v = "ok" -> << QuestionPrefix \o <<" ">> \o QuestionText >>
      [] v = "empty" -> << QuestionPrefix >>
      [] v = "absent" -> << >>

OptionLines(L, v) ==
    CASE v = "ok" -> << <<L, ":", " ">> \o OptionText(L) >>
      [] v = "empty" -> << <<L, ":">> >>
      [] v = "absent" -> << >>

AnswerTexts ==
    {<<"A">>, <<"B">>, <<"C">>, <<"D">>, <<"a">>, <<"d">>, <<"E">>, <<>>,
     <<"A", ".">>, <<"A", "B">>}

AnswerLines(v) ==
    IF v = NoneStr THEN << >>
    ELSE << CorrectAnswerPrefix \o <<" ">> \o v >>

FieldVariants ==
    [q : {"ok", "empty", "absent"},
     A : {"ok", "empty", "absent"},
     B : {"ok", "empty", "absent"},
     C : {"ok", "empty", "absent"},
     D : {"ok", "empty", "absent"},
     ans : AnswerTexts \cup {NoneStr}]

\* the lines of field f (1 question, 2..5 options A..D, 6 answer)
FieldLines(v, f) ==
    CASE f = 1 -> QuestionLines(v.q)
      [] f = 2 -> OptionLines("A", v.A)
      [] f = 3 -> OptionLines("B", v.B)
      [] f = 4 -> OptionLines("C", v.C)
      [] f = 5 -> OptionLines("D", v.D)
      [] f = 6 -> AnswerLines(v.ans)

\* the fields of v in the order p
Arrange(v, p) ==
    FieldLines(v, p[1]) \o FieldLines(v, p[2]) \o FieldLines(v, p[3]) \o
    FieldLines(v, p[4]) \o FieldLines(v, p[5]) \o FieldLines(v, p[6])

Permutations6 ==
    {p \in [1..6 -> 1..6] : \A i, j \in 1..6 : p[i] = p[j] => i = j}

Canonical == <<1, 2, 3, 4, 5, 6>>
Reversed == <<6, 5, 4, 3, 2, 1>>

WellFormedVariants ==
    {v \in FieldVariants :
        /\ v.q = "ok" /\ v.A = "ok" /\ v.B = "ok" /\ v.C = "ok" /\ v.D = "ok"
        /\ v.ans \in {<<"A">>, <<"B">>, <<"C">>, <<"D">>}}

\* lines an LLM may add to, or repeat in, its answer
ExtraLines ==
    {<<>>,
     <<"H","e","r","e"," ","i","t"," ","i","s",":">>,
     <<"B", ":">>,
     <<" ", "C", ":", " ", "v", " ">>,
     CorrectAnswerPrefix \o <<"b">>}

MoreExtraLines ==
    {<<" ", " ">>,
     <<"a", ":", " ", "n">>,
     <<"A", "n", "s", "w", "e", "r", ":", " ", "B">>,
     QuestionPrefix,
     QuestionPrefix \o <<"s">>,
     CorrectAnswerPrefix,
     CorrectAnswerPrefix \o <<" ", "E">>}

InsertAt(ls, p, e) == SubSeq(ls, 1, p) \o <<e>> \o SubSeq(ls, p + 1, Len(ls))

RECURSIVE WithExtras(_, _)
\* the line sequences of S with at most k extra lines inserted anywhere
WithExtras(S, k) ==
    IF k = 0 THEN S
    ELSE S \cup WithExtras(UNION {{InsertAt(ls, p, e) :
                                      p \in 0..Len(ls), e \in ExtraLines} :
                                   ls \in S}, k - 1)

McqOrderFamily == {Arrange(v, p) : v \in WellFormedVariants, p \in Permutations6}
McqVariantFamily == {Arrange(v, p) : v \in FieldVariants, p \in {Canonical, Reversed}}
McqExtraBases ==
    {Arrange(v, p) :
        v \in {w \in WellFormedVariants : w.ans \in {<<"A">>, <<"C">>}},
        p \in {Canonical, Reversed}}

McqExtraFamily ==
    WithExtras(McqExtraBases, MaxExtra) \cup
    UNION {{InsertAt(ls, p, e) : p \in 0..Len(ls), e \in MoreExtraLines} :
           ls \in McqExtraBases}

McqInputs ==
    {JoinLines(ls) : ls \in McqOrderFamily \cup McqVariantFamily \cup McqExtraFamily}

-----------------------------------------------------------------------------
(* Running parse_mcq_output on one input *)

QuizLocals0 ==
    /\ lines = <<>>
    /\ idx = 1
    /\ title = NoneStr
    /\ questions = <<>>
    /\ current_question_lines = <<>>
    /\ question_count = 0
    /\ handed = <<>>

NoLog == [event |-> "none"]

InitMcq ==
    /\ raw_text \in McqInputs
    /\ pc = "mcq_call"
    /\ result = NotReturned
    /\ log = NoLog
    /\ QuizLocals0

ParseMcq ==
    /\ pc = "mcq_call"
    /\ result' = parse_mcq_output(raw_text)
    /\ log' = parse_mcq_log(raw_text)
    /\ pc' = "mcq_done"
    /\ UNCHANGED <<raw_text, lines, idx, title, questions,
                   current_question_lines, question_count, handed>>

NextMcq == ParseMcq

SpecMcq == InitMcq /\ [][NextMcq]_vars

-----------------------------------------------------------------------------
(* The input text, read independently of the parser *)

\* the positions where a line of text starts
LineStarts(text) == {i \in 1..Len(text) + 1 : i = 1 \/ text[i - 1] = NL}

\* the line of text starting at i, trimmed
TrimmedLineAt(text, i) == Strip(SubSeq(text, i, FirstIndexOf(text, {NL}, i) - 1))

\* the starts of the lines that, trimmed, start with prefix
MatchingStarts(text, prefix) ==
    {i \in LineStarts(text) : StartsWith(TrimmedLineAt(text, i), prefix)}

HasLine(text, prefix) == MatchingStarts(text, prefix) # {}

LastMatch(text, prefix) ==
    CHOOSE i \in MatchingStarts(text, prefix) :
        \A j \in MatchingStarts(text, prefix) : j <= i

\* the trimmed text after prefix on the last line that starts with it
LastRemainder(text, prefix) ==
    LET line == TrimmedLineAt(text, LastMatch(text, prefix)) IN
    Strip(SubSeq(line, Len(prefix) + 1, Len(line)))

OptionPrefix(L) == <<L, ":">>
FieldPrefixes ==
    {QuestionPrefix, CorrectAnswerPrefix} \cup {OptionPrefix(L) : L \in LetterSet}

\* one line per field, each with text, the answer one of A, B, C, D
WellFormedMcq(text) ==
    /\ \A P \in FieldPrefixes :
          /\ Cardinality(MatchingStarts(text, P)) = 1
          /\ LastRemainder(text, P) # <<>>
    /\ LastRemainder(text, CorrectAnswerPrefix) \in {<<L>> : L \in LetterSet}

\* A=0, B=1, C=2, D=3, in either case
LetterIndex(r) ==
    CASE r \in {<<"A">>, <<"a">>} -> 0
      [] r \in {<<"B">>, <<"b">>} -> 1
      [] r \in {<<"C">>, <<"c">>} -> 2
      [] r \in {<<"D">>, <<"d">>} -> 3
      [] OTHER -> -1

MissingLetters(text) == {L \in LetterSet : ~HasLine(text, OptionPrefix(L))}

IsMcqRecord(r) == r.type = "multiple_choice_question"

-----------------------------------------------------------------------------
(* Claims about parse_mcq_output, checked under SpecMcq *)

\* C1: for a well-formed text (one line per field, in any order, lines that
\* match no prefix interspersed) the record holds the trimmed question, the
\* four trimmed options in the order A, B, C, D and the index of the answer
\* letter, so that options[correct_answer_index] is the labelled option.
C1_WellFormedParses ==
    (pc = "mcq_done" /\ WellFormedMcq(raw_text)) =>
        LET ans == LastRemainder(raw_text, CorrectAnswerPrefix) IN
        /\ result =
              [type |-> "multiple_choice_question",
               question_text |-> LastRemainder(raw_text, QuestionPrefix),
               options |-> <<LastRemainder(raw_text, OptionPrefix("A")),
                             LastRemainder(raw_text, OptionPrefix("B")),
                             LastRemainder(raw_text, OptionPrefix("C")),
                             LastRemainder(raw_text, OptionPrefix("D"))>>,
               correct_answer_index |-> LetterIndex(ans)]
        /\ result.options[result.correct_answer_index + 1] =
              LastRemainder(raw_text, OptionPrefix(ans[1]))

\* a well-formed text with the answer line before the question line and two
\* lines that match no prefix, parsed into a record with answer C
C1_Witness ==
    /\ pc = "mcq_done"
    /\ WellFormedMcq(raw_text)
    /\ Cardinality(LineStarts(raw_text)) = 8
    /\ LastMatch(raw_text, CorrectAnswerPrefix) < LastMatch(raw_text, QuestionPrefix)
    /\ IsMcqRecord(result)
    /\ result.correct_answer_index = 2
    /\ result.options[3] = <<"y">>

\* C2: every record returned has four options, each a non-empty string.
C2_OptionsNonEmpty ==
    (pc = "mcq_done" /\ IsMcqRecord(result)) =>
        /\ Len(result.options) = 4
        /\ \A i \in 1..4 : result.options[i] # NoneStr /\ Len(result.options[i]) > 0

QuestionAndOptionsPresent(text) ==
    \A P \in FieldPrefixes \ {CorrectAnswerPrefix} :
        HasLine(text, P) /\ LastRemainder(text, P) # <<>>

\* C4: with question and options present and non-empty, a record is returned
\* iff the last answer line's trimmed text is one of A..D or a..d, and then
\* the index is that of the letter.
C4_AnswerLetterDecides ==
    (pc = "mcq_done" /\ QuestionAndOptionsPresent(raw_text)) =>
        LET valid ==
                /\ HasLine(raw_text, CorrectAnswerPrefix)
                /\ LetterIndex(LastRemainder(raw_text, CorrectAnswerPrefix)) >= 0
        IN /\ IsMcqRecord(result) <=> valid
           /\ ~IsMcqRecord(result) => result = None
           /\ valid => result.correct_answer_index =
                          LetterIndex(LastRemainder(raw_text, CorrectAnswerPrefix))

\* the answer line `Correct Answer: d` parsed into index 3
C4_Witness ==
    /\ pc = "mcq_done"
    /\ QuestionAndOptionsPresent(raw_text)
    /\ HasLine(raw_text, CorrectAnswerPrefix)
    /\ LastRemainder(raw_text, CorrectAnswerPrefix) = <<"d">>
    /\ IsMcqRecord(result)
    /\ result.correct_answer_index = 3

-----------------------------------------------------------------------------
(* parse_quiz_output *)

\* line 144 without the test of the first token
IsMarker_DigitOnly(line_stripped) ==
    /\ Len(line_stripped) > 0
    /\ line_stripped[1] \in Digits

\* line_stripped and line_stripped[0].isdigit() and '.' in line_stripped.split()[0]
IsMarker(line_stripped) ==
    /\ Len(line_stripped) > 0
    /\ line_stripped[1] \in Digits
    /\ LET tok == FirstToken(line_stripped) IN \E k \in 1..Len(tok) : tok[k] = "."

\* line 124 accepting any `label:` first line
TitleFound_AnyLabel(first_line) == Len(SplitColon1(first_line)) >= 2

\* line 124: first_line.startswith("Quiz Title:")
TitleFound(first_line) == StartsWith(first_line, QuizTitlePrefix)

QuizLog(event, num) == [event |-> event, num |-> num]

\* lines 115-136: the locals and the title
FindTitle ==
    /\ pc = "quiz_call"
    /\ LET lines0 == SplitLines(Strip(raw_text))
           first_line == IF Len(lines0) > 0 THEN Strip(lines0[1]) ELSE <<>>
           parts == SplitColon1(first_line)
       IN IF TitleFound(first_line) THEN
              IF Len(parts) >= 2 THEN
                  /\ title' = Strip(parts[2])
                  /\ lines' = Tail(lines0)
                  /\ pc' = "loop"
                  /\ UNCHANGED <<result, log>>
              ELSE
                  /\ log' = QuizLog("title_no_text", 0)
                  /\ result' = None
                  /\ pc' = "done"
                  /\ lines' = lines0
                  /\ UNCHANGED title
          ELSE
              /\ log' = QuizLog("title_not_found", 0)
              /\ result' = None
              /\ pc' = "done"
              /\ lines' = lines0
              /\ UNCHANGED title
    /\ questions' = <<>>
    /\ current_question_lines' = <<>>
    /\ question_count' = 0
    /\ idx' = 1
    /\ UNCHANGED <<raw_text, handed>>

InLoop == pc = "loop" /\ idx <= Len(lines)

\* line 142: a blank line
LoopBlank ==
    /\ InLoop
    /\ Len(Strip(lines[idx])) = 0
    /\ idx' = idx + 1
    /\ UNCHANGED <<raw_text, pc, result, log, lines, title, questions,
                   current_question_lines, question_count, handed>>

\* lines 144-157: a line that starts a numbered block
LoopMarker ==
    /\ InLoop
    /\ Len(Strip(lines[idx])) # 0
    /\ IsMarker(Strip(lines[idx]))
    /\ question_count' = question_count + 1
    /\ IF Len(current_question_lines) > 0 THEN
           LET question_block == JoinLines(current_question_lines)
               parsed_mcq == parse_mcq_output(question_block)
           IN /\ handed' = Append(handed, question_block)
              /\ IF parsed_mcq # None THEN
                     /\ questions' = Append(questions, parsed_mcq)
                     /\ current_question_lines' = <<>>
                     /\ idx' = idx + 1
                     /\ UNCHANGED <<pc, result, log>>
                 ELSE
                     /\ log' = QuizLog("block_failed", question_count' - 1)
                     /\ result' = None
                     /\ pc' = "done"
                     /\ UNCHANGED <<questions, current_question_lines, idx>>
       ELSE
           /\ idx' = idx + 1
           /\ UNCHANGED <<pc, result, log, questions, current_question_lines, handed>>
    /\ UNCHANGED <<raw_text, lines, title>>

\* lines 158-159: any other line
LoopAppend ==
    /\ InLoop
    /\ Len(Strip(lines[idx])) # 0
    /\ ~IsMarker(Strip(lines[idx]))
    /\ current_question_lines' = Append(current_question_lines, lines[idx])
    /\ idx' = idx + 1
    /\ UNCHANGED <<raw_text, pc, result, log, lines, title, questions,
                   question_count, handed>>

\* lines 161-171 left out: the block collected after the last marker is dropped
LastBlock_Dropped ==
    /\ pc = "loop"
    /\ idx > Len(lines)
    /\ pc' = "validate"
    /\ UNCHANGED <<raw_text, result, log, lines, idx, title, questions,
                   current_question_lines, question_count, handed>>

\* lines 161-171: the last collected block
LastBlock ==
    /\ pc = "loop"
    /\ idx > Len(lines)
    /\ IF Len(current_question_lines) > 0 THEN
           LET question_block == JoinLines(current_question_lines)
               parsed_mcq == parse_mcq_output(question_block)
           IN /\ handed' = Append(handed, question_block)
              /\ IF parsed_mcq # None THEN
                     /\ questions' = Append(questions, parsed_mcq)
                     /\ pc' = "validate"
                     /\ UNCHANGED <<result, log>>
                 ELSE
                     /\ log' = QuizLog("last_block_failed", 0)
                     /\ result' = None
                     /\ pc' = "done"
                     /\ UNCHANGED questions
       ELSE
           /\ pc' = "validate"
           /\ UNCHANGED <<result, log, questions, handed>>
    /\ UNCHANGED <<raw_text, lines, idx, title, current_question_lines, question_count>>

\* line 174 with >= for ==
FinalValidation_AtLeast ==
    /\ pc = "validate"
    /\ IF Len(questions) >= expected_questions THEN
           /\ log' = QuizLog("success", Len(questions))
           /\ result' = [type |-> "quiz", title |-> title, questions |-> questions]
       ELSE
           /\ log' = QuizLog("count_mismatch", Len(questions))
           /\ result' = None
    /\ pc' = "done"
    /\ UNCHANGED <<raw_text, lines, idx, title, questions,
                   current_question_lines, question_count, handed>>

\* lines 173-180: the final validation
FinalValidation ==
    /\ pc = "validate"
    /\ IF Len(questions) = expected_questions THEN
           /\ log' = QuizLog("success", Len(questions))
           /\ result' = [type |-> "quiz", title |-> title, questions |-> questions]
       ELSE
           /\ log' = QuizLog("count_mismatch", Len(questions))
           /\ result' = None
    /\ pc' = "done"
    /\ UNCHANGED <<raw_text, lines, idx, title, questions,
                   current_question_lines, question_count, handed>>

-----------------------------------------------------------------------------
(* Input texts for parse_quiz_output *)

MaxChunks == 6
MaxBodyLines == 3

DigitOf(i) == <<"0", "1", "2", "3", "4", "5", "6", "7", "8", "9">>[(i % 10) + 1]

TitleOk == QuizTitlePrefix \o <<" ", "T">>

\* a well-formed question block, its text and answer depending on i
GoodBlock(i) ==
    << QuestionPrefix \o <<" ", "q", DigitOf(i)>>,
       <<"A", ":", " ">> \o OptionText("A"),
       <<"B", ":", " ">> \o OptionText("B"),
       <<"C", ":", " ">> \o OptionText("C"),
       <<"D", ":", " ">> \o OptionText("D"),
       CorrectAnswerPrefix \o <<" ", Letters[(i % 4) + 1]>> >>

\* the record GoodBlock(i) stands for
GoodRecord(i) ==
    [type |-> "multiple_choice_question",
     question_text |-> <<"q", DigitOf(i)>>,
     options |-> <<OptionText("A"), OptionText("B"), OptionText("C"), OptionText("D")>>,
     correct_answer_index |-> i % 4]

\* a block cut short
BadBlock(i) ==
    << QuestionPrefix \o <<" ", "q", DigitOf(i)>>,
       <<"A", ":", " ">> \o OptionText("A") >>

\* the i-th chunk of a body: a marker line `i.` (after a blank line when i is
\* odd), a good block or a bad block
Chunk(kind, i) ==
    CASE kind = "M" -> IF i % 2 = 1 THEN << <<>>, <<DigitOf(i), ".">> >>
                       ELSE << <<DigitOf(i), ".">> >>
      [] kind = "G" -> GoodBlock(i)
      [] kind = "B" -> BadBlock(i)

RECURSIVE BodyFrom(_, _)
BodyFrom(kinds, i) ==
    IF i > Len(kinds) THEN <<>> ELSE Chunk(kinds[i], i) \o BodyFrom(kinds, i + 1)

Body(kinds) == BodyFrom(kinds, 1)

SeqsUpTo(S, n) == UNION {[1..k -> S] : k \in 0..n}

QuizChunkFamily ==
    {<<TitleOk>> \o Body(ks) : ks \in SeqsUpTo({"M", "G", "B"}, MaxChunks)}

\* four blocks, good or bad, separated by markers, none before the first
QuizFourBlockFamily ==
    {<<TitleOk>> \o Body(<<k[1], "M", k[2], "M", k[3], "M", k[4]>>) :
        k \in [1..4 -> {"G", "B"}]}

QuizBodyLines ==
    {<<>>,
     <<" ", "\t">>,
     <<" ", "1", ".", " ">>,
     <<"2", ".", " ">> \o QuestionPrefix \o <<" ", "q">>,
     <<"3", ".", "1", "4", " ", "i", "s", " ", "p", "i">>,
     <<"4", ")", " ", "n", "o", ".">>,
     <<"5", " ", ".">>,
     <<" ", "A", ":", " ", "w", " ">>,
     TitleOk}

QuizLineFamily ==
    {<<TitleOk>> \o ls : ls \in SeqsUpTo(QuizBodyLines, MaxBodyLines)}

SampleBody == Body(<<"M", "G", "M", "G", "M", "G">>)

\* first lines that are, or are not, a title line
TitleLines ==
    {<< TitleOk >>,
     << QuizTitlePrefix >>,
     << QuizTitlePrefix \o <<" ", " ">> >>,
     << <<" ">> \o QuizTitlePrefix \o <<"T", ":", "t", " ">> >>,
     << <<>>, <<" ">>, TitleOk >>,
     << >>,
     << <<"Q","u","i","z"," ","T","i","t","l","e">> >>,
     << <<"q","u","i","z"," ","t","i","t","l","e",":"," ","T">> >>,
     << <<"T","i","t","l","e",":"," ","T">> >>,
     << <<"#"," ">> \o TitleOk >>}

QuizTitleFamily ==
    {t \o b : t \in TitleLines,
              b \in {<<>>, SampleBody, <<TitleOk>> \o SampleBody,
                     Body(<<"M", "G", "M", "B">>)}}

\* three blocks among marker lines with text, a false marker and other lines
QuizMixedInput ==
    <<TitleOk, <<>>, <<" ", "1", ".", " ", "F", "i", "r", "s", "t">>>> \o
    GoodBlock(1) \o
    << <<" ", " ">>, <<"2", ")">>, <<"2", ".">>, <<" ", "n", "o", "t", "e">> >> \o
    GoodBlock(2) \o
    << <<"3", ".", "1", "4", " ", "i", "s", " ", "p", "i">> >> \o
    GoodBlock(3) \o << <<>> >>

QuizInputs ==
    {JoinLines(ls) : ls \in QuizChunkFamily \cup QuizFourBlockFamily \cup
                            QuizLineFamily \cup QuizTitleFamily \cup {QuizMixedInput}}

-----------------------------------------------------------------------------
(* Running parse_quiz_output on one input *)

InitQuiz ==
    /\ raw_text \in QuizInputs
    /\ pc = "quiz_call"
    /\ result = NotReturned
    /\ log = NoLog
    /\ QuizLocals0

NextQuiz ==
    \/ FindTitle
    \/ LoopBlank
    \/ LoopMarker
    \/ LoopAppend
    \/ LastBlock
    \/ FinalValidation

SpecQuiz == InitQuiz /\ [][NextQuiz]_vars

-----------------------------------------------------------------------------
(* The quiz text, read independently of the parser *)

\* the lines of the trimmed text, verbatim and in order
RawLines(text) ==
    LET t == Strip(text)
        S == LineStarts(t)
    IN [k \in 1..Cardinality(S) |->
           LET i == CHOOSE i \in S : Cardinality({j \in S : j <= i}) = k
           IN SubSeq(t, i, FirstIndexOf(t, {NL}, i) - 1)]

\* the lines after the first
BodyOf(text) == Tail(RawLines(text))

StartsWithTitle(text) == StartsWith(Strip(RawLines(text)[1]), QuizTitlePrefix)

IsBlankLine(line) == \A k \in 1..Len(line) : line[k] \in Whitespace
NotBlankLine(line) == ~IsBlankLine(line)

\* trimmed non-empty, first character a digit, a `.` before the first whitespace
IsMarkerLine(line) ==
    LET t == Strip(line) IN
    /\ t # <<>>
    /\ t[1] \in Digits
    /\ \E k \in 1..Len(t) : t[k] = "." /\ \A j \in 1..k : t[j] \notin Whitespace

RECURSIVE RunsFrom(_, _, _)
RunsFrom(ls, i, cur) ==
    LET closed == IF cur = <<>> THEN <<>> ELSE <<cur>> IN
    IF i > Len(ls) THEN closed
    ELSE IF IsMarkerLine(ls[i]) THEN closed \o RunsFrom(ls, i + 1, <<>>)
    ELSE IF IsBlankLine(ls[i]) THEN RunsFrom(ls, i + 1, cur)
    ELSE RunsFrom(ls, i + 1, Append(cur, ls[i]))

\* the maximal non-empty runs of non-blank lines between marker lines
Runs(ls) == RunsFrom(ls, 1, <<>>)

\* the runs as the texts handed to the MCQ parser
RunTexts(ls) == LET r == Runs(ls) IN [k \in 1..Len(r) |-> JoinLines(r[k])]

AllRunsParse(ls) ==
    \A k \in 1..Len(RunTexts(ls)) : parse_mcq_output(RunTexts(ls)[k]) # None

SampleQuiz == JoinLines(<<TitleOk>> \o SampleBody)

IsQuizRecord(r) == r.type = "quiz"

-----------------------------------------------------------------------------
(* Claims about parse_quiz_output, checked under SpecQuiz *)

\* C5: a record returned holds exactly 3 questions, the k-th being the record
\* parsed from the k-th block of the body; the sample text (title T, markers
\* 1., 2., 3., each followed by a well-formed block) gives title T and the
\* three questions in order.
C5_ThreeQuestionsInOrder ==
    /\ (pc = "done" /\ IsQuizRecord(result)) =>
          /\ Len(result.questions) = 3
          /\ Len(RunTexts(BodyOf(raw_text))) = 3
          /\ \A k \in 1..3 :
                result.questions[k] = parse_mcq_output(RunTexts(BodyOf(raw_text))[k])
    /\ (pc = "done" /\ raw_text = SampleQuiz) =>
          result = [type |-> "quiz", title |-> <<"T">>,
                    questions |-> <<GoodRecord(2), GoodRecord(4), GoodRecord(6)>>]

\* the sample text parsed into a record
C5_Witness ==
    /\ pc = "done"
    /\ raw_text = SampleQuiz
    /\ IsQuizRecord(result)
    /\ result.questions[2].correct_answer_index = 0
    /\ result.questions[3].correct_answer_index = 2

\* C6: when the first line does not start with `Quiz Title:`, the parser
\* fails whatever follows and hands no block to the MCQ parser.
C6_NoTitleFails ==
    (pc # "quiz_call" /\ ~StartsWithTitle(raw_text)) =>
        /\ pc = "done"
        /\ result = None
        /\ log.event = "title_not_found"
        /\ handed = <<>>
        /\ questions = <<>>

\* a text with a title on the second line and three well-formed blocks
C6_Witness ==
    /\ pc = "done"
    /\ raw_text = JoinLines(<< <<"T","i","t","l","e",":"," ","T">>, TitleOk >> \o SampleBody)
    /\ ~StartsWithTitle(raw_text)
    /\ result = None

\* C7: every record returned has a non-empty title.
C7_TitleNonEmpty ==
    (pc = "done" /\ IsQuizRecord(result)) => Len(result.title) > 0

\* C8: with a title line and n blocks that all parse, a record is returned
\* iff n = 3, and otherwise the failure is a count mismatch reporting n.
C8_CountDecides ==
    (pc = "done" /\ StartsWithTitle(raw_text) /\ AllRunsParse(BodyOf(raw_text))) =>
        LET n == Len(RunTexts(BodyOf(raw_text))) IN
        /\ IsQuizRecord(result) <=> n = 3
        /\ n # 3 => result = None /\ log = QuizLog("count_mismatch", n)

\* two blocks that parse, reported as a count of 2
C8_Witness ==
    /\ pc = "done"
    /\ StartsWithTitle(raw_text)
    /\ AllRunsParse(BodyOf(raw_text))
    /\ Len(RunTexts(BodyOf(raw_text))) = 2
    /\ result = None
    /\ log = QuizLog("count_mismatch", 2)

\* C9: if a block handed to the MCQ parser fails, parse_quiz_output fails at
\* once: no later block is parsed, nothing is returned, and the failure
\* identifies the ordinal position of the block that failed.
C9_AllOrNothing ==
    \A k \in 1..Len(handed) :
        parse_mcq_output(handed[k]) = None =>
            /\ pc = "done"
            /\ result = None
            /\ k = Len(handed)
            /\ \/ log = QuizLog("block_failed", k)
               \/ log.event = "last_block_failed" /\ Len(RunTexts(lines)) = k

\* the lines of ls that are not blank
NonBlank(ls) == SelectSeq(ls, NotBlankLine)

\* the position of the last marker line before line i, 0 if none
LastMarkerBefore(ls, i) ==
    LET M == {j \in 1..i - 1 : IsMarkerLine(ls[j])} IN
    IF M = {} THEN 0 ELSE CHOOSE j \in M : \A m \in M : m <= j

\* C10: during the scan the buffer holds the non-blank, non-marker lines seen
\* since the last marker line, verbatim and in order, and the blocks handed
\* to the MCQ parser are the maximal non-empty runs of such lines.
C10_BufferAndBlocks ==
    /\ pc = "loop" =>
          /\ current_question_lines =
                NonBlank(SubSeq(lines, LastMarkerBefore(lines, idx) + 1, idx - 1))
          /\ \A k \in 1..Len(current_question_lines) :
                ~IsMarkerLine(current_question_lines[k])
          /\ handed \o (IF current_question_lines = <<>> THEN <<>>
                        ELSE <<JoinLines(current_question_lines)>>)
                = RunTexts(SubSeq(lines, 1, idx - 1))
    /\ pc \in {"validate", "done"} /\ log.event # "title_not_found" =>
          /\ Len(handed) <= Len(RunTexts(lines))
          /\ handed = SubSeq(RunTexts(lines), 1, Len(handed))
          /\ log.event \in {"none", "success", "count_mismatch"} =>
                handed = RunTexts(lines)

\* the scan of the mixed text after its third marker line: two blocks handed
\* over, the six lines of the third in the buffer
C10_Witness ==
    /\ pc = "loop"
    /\ raw_text = JoinLines(QuizMixedInput)
    /\ Len(handed) = 2
    /\ handed[1] = JoinLines(GoodBlock(1) \o << <<"2", ")">> >>)
    /\ handed[2] = JoinLines(<< <<" ", "n", "o", "t", "e">> >> \o GoodBlock(2))
    /\ current_question_lines = GoodBlock(3)

====
